---- MODULE Spec2Model ----
(***************************************************************************)
(* A model of wrapper/model/ContainerConfig.py: the ContainerConfig        *)
(* aggregate, its two construction paths (defaults, or hydration from a    *)
(* container's inspection record) and its toggle / builder methods.        *)
(*                                                                         *)
(* Python strings are TLA+ strings; the string functions the code uses     *)
(* (str.strip, str.split, str.lower, the `in` substring test, f-strings)   *)
(* are computed character by character.  A Python dict is a function       *)
(* whose DOMAIN is its key set (insertion order, which only the text       *)
(* formatters read, is not kept).  The fields privileged, interactive,     *)
(* tty and shm_size are written by the constructor only and read by the    *)
(* formatters only; they are left out.                                     *)
(***************************************************************************)
EXTENDS Integers, Sequences, FiniteSets, TLC

VARIABLES
    pc,                \* "new": inside __init__, after the defaults (l.15-27);
                       \* "ready": constructed; "failed": __init__ raised
    windows,           \* the platform probe of l.94 / l.107 (fixed per run)
    enable_gui,        \* self.__enable_gui
    share_timezone,    \* self.__share_timezone
    common_resources,  \* self.__common_resources
    network_host,      \* self.network_host
    ports,             \* self.ports
    mounts,            \* self.mounts
    devices,           \* self.devices
    envs,              \* self.envs
    share_cwd,         \* self.__share_cwd
    arg,               \* the constructor's argument: <<>> (None) or <<container>>
    lastCall,          \* the last call made on the object and its arguments
    raised             \* the exception that call signalled, or "none"

vars == <<pc, windows, enable_gui, share_timezone, common_resources,
          network_host, ports, mounts, devices, envs, share_cwd,
          arg, lastCall, raised>>

fields == <<enable_gui, share_timezone, common_resources, network_host,
            ports, mounts, devices, envs, share_cwd>>

----------------------------------------------------------------------------
(* Bounds of the model. *)

\* addVolume / enableCwdShare / enableGUI / enableSharedTimezone stop
\* appending once self.mounts holds this many entries beyond the hydrated ones.
MaxMounts == 3

\* addDevice stops appending once self.devices holds this many entries.
MaxDevices == 1

\* Longest environment list of a generated inspection record.
MaxEnvEntries == 2

\* Longest mount list of a generated inspection record.
MaxShares == 2

----------------------------------------------------------------------------
(* Python values and string functions. *)

\* Python's None, where a string is expected (str(None) is "None").
None == "None"

\* dict.get(key, default)
Get(d, key, default) == IF key \in DOMAIN d THEN d[key] ELSE default

\* `sub in s` on strings
Contains(sub, s) ==
    \E i \in 1..(Len(s) - Len(sub) + 1) : SubSeq(s, i, i + Len(sub) - 1) = sub

RECURSIVE LStrip(_, _)
LStrip(s, c) ==
    IF Len(s) > 0 /\ SubSeq(s, 1, 1) = c
    THEN LStrip(SubSeq(s, 2, Len(s)), c)
    ELSE s

RECURSIVE RStrip(_, _)
RStrip(s, c) ==
    IF Len(s) > 0 /\ SubSeq(s, Len(s), Len(s)) = c
    THEN RStrip(SubSeq(s, 1, Len(s) - 1), c)
    ELSE s

\* s.strip(c) for a one-character c: every leading and trailing c goes
Strip(s, c) == RStrip(LStrip(s, c), c)

\* s.split(sep) for a one-character sep: cut at EVERY occurrence
RECURSIVE Split(_, _)
Split(s, sep) ==
    IF \E i \in 1..Len(s) : SubSeq(s, i, i) = sep
    THEN LET i == CHOOSE j \in 1..Len(s) :
                     /\ SubSeq(s, j, j) = sep
                     /\ \A k \in 1..(j - 1) : SubSeq(s, k, k) # sep
         IN  <<SubSeq(s, 1, i - 1)>> \o Split(SubSeq(s, i + 1, Len(s)), sep)
    ELSE <<s>>

UpperCase == "ABCDEFGHIJKLMNOPQRSTUVWXYZ"
LowerCase == "abcdefghijklmnopqrstuvwxyz"

LowerChar(c) ==
    IF \E i \in 1..Len(UpperCase) : SubSeq(UpperCase, i, i) = c
    THEN LET i == CHOOSE j \in 1..Len(UpperCase) : SubSeq(UpperCase, j, j) = c
         IN  SubSeq(LowerCase, i, i)
    ELSE c

\* s.lower()
RECURSIVE Lower(_)
Lower(s) ==
    IF Len(s) = 0 THEN s
    ELSE LowerChar(SubSeq(s, 1, 1)) \o Lower(SubSeq(s, 2, Len(s)))

\* docker.types.Mount(target, source, type, read_only, propagation)
Mount(target, source, type, read_only, propagation) ==
    [Target |-> target, Source |-> source, Type |-> type,
     ReadOnly |-> read_only, Propagation |-> propagation]

\* dict[key] = value
Upsert(d, key, value) ==
    [k \in DOMAIN d \cup {key} |-> IF k = key THEN value ELSE d[k]]

EmptyDict == [k \in {} |-> ""]

\* the record kept in lastCall: the method and the arguments the claims read
Call(op, args) == [op |-> op, args |-> args]

----------------------------------------------------------------------------
(* Hydration: ContainerConfig(container), l.28-90. *)

\* l.62-68: every entry is stripped of ' then of ", split at '=', and the
\* two pieces unpacked into key, value; any other number of pieces is a
\* ValueError, which leaves the entries parsed so far in self.envs.
RECURSIVE parseEnvs(_, _)
parseEnvs(e, list) ==
    IF list = <<>> THEN [envs |-> e, raised |-> "none"]
    ELSE LET parts == Split(Strip(Strip(Head(list), "'"), "\""), "=")
         IN  IF Len(parts) # 2
             THEN [envs |-> e, raised |-> "ValueError"]
             ELSE parseEnvs(Upsert(e, parts[1], parts[2]), Tail(list))

\* l.38-42
guiFromEnvs(e) == \E env \in DOMAIN e : Contains("DISPLAY", env)

\* l.76-84: the Mount built from one inspected mount
hydratedMount(share) ==
    Mount(Get(share, "Destination", None),
          IF Get(share, "Type", "volume") = "volume"
          THEN "Docker " \o Get(share, "Driver", "") \o " volume "
                         \o Get(share, "Name", "unknown")
          ELSE Get(share, "Source", None),
          Get(share, "Type", "volume"),
          ~ Get(share, "RW", TRUE),
          Get(share, "Propagation", ""))

\* classifyMount with three independent `if`s in place of if / elif / elif
classifyMount_independent(m, share) ==
    LET a == IF Contains("/etc/timezone", Get(share, "Destination", ""))
             THEN [m EXCEPT !.share_timezone = TRUE] ELSE m
        b == IF Contains("/opt/resources", Get(share, "Destination", ""))
             THEN [a EXCEPT !.common_resources = TRUE] ELSE a
    IN  IF Contains("/workspace", Get(share, "Destination", ""))
        THEN [b EXCEPT !.share_cwd = Get(share, "Source", "")] ELSE b

\* l.85-90: the if / elif / elif on the mount's Destination
classifyMount(m, share) ==
    IF Contains("/etc/timezone", Get(share, "Destination", ""))
    THEN [m EXCEPT !.share_timezone = TRUE]
    ELSE IF Contains("/opt/resources", Get(share, "Destination", ""))
    THEN [m EXCEPT !.common_resources = TRUE]
    ELSE IF Contains("/workspace", Get(share, "Destination", ""))
    THEN [m EXCEPT !.share_cwd = Get(share, "Source", "")]
    ELSE m

\* l.70-90, on m = [mounts, share_timezone, common_resources, share_cwd]
RECURSIVE parseMounts(_, _)
parseMounts(m, list) ==
    IF list = <<>> THEN m
    ELSE parseMounts(
             classifyMount([m EXCEPT !.mounts = Append(@, hydratedMount(Head(list)))],
                           Head(list)),
             Tail(list))

\* l.13-29 with container = None
defaultConstruct ==
    /\ pc = "new"
    /\ pc' = "ready"
    /\ arg' = <<>>
    /\ lastCall' = Call("__init__", <<>>)
    /\ raised' = "none"
    /\ UNCHANGED <<windows, fields>>

\* l.13-60 with a container: its attrs are a dict of optional sections
parseContainerConfig(container) ==
    LET config   == Get(container, "Config", EmptyDict)
        parsed   == parseEnvs(envs, Get(config, "Env", <<>>))
        host     == Get(container, "HostConfig", EmptyDict)
        m        == parseMounts([mounts |-> mounts, share_timezone |-> FALSE,
                                 common_resources |-> FALSE, share_cwd |-> share_cwd],
                                Get(container, "Mounts", <<>>))
        network  == Get(container, "NetworkSettings", EmptyDict)
    IN  /\ pc = "new"
        /\ arg' = <<container>>
        /\ lastCall' = Call("__init__", <<>>)
        /\ envs' = parsed.envs
        /\ IF parsed.raised # "none"
           THEN \* l.36 raised: nothing after it runs
                /\ pc' = "failed"
                /\ raised' = parsed.raised
                /\ UNCHANGED <<windows, enable_gui, share_timezone, common_resources,
                               network_host, ports, mounts, devices, share_cwd>>
           ELSE /\ enable_gui' = guiFromEnvs(parsed.envs)
                /\ devices' = Get(host, "Devices", <<>>)
                /\ share_timezone' = m.share_timezone
                /\ common_resources' = m.common_resources
                /\ mounts' = m.mounts
                /\ share_cwd' = m.share_cwd
                /\ IF "Networks" \notin DOMAIN network
                   THEN \* l.59: network_settings["Networks"] is a KeyError
                        /\ pc' = "failed"
                        /\ raised' = "KeyError"
                        /\ UNCHANGED <<windows, network_host, ports>>
                   ELSE /\ pc' = "ready"
                        /\ raised' = "none"
                        /\ network_host' = ("host" \in network["Networks"])
                        /\ ports' = Get(network, "Ports", EmptyDict)
                        /\ UNCHANGED windows

----------------------------------------------------------------------------
(* The methods, l.92-166.  Each is enabled on a constructed object.        *)

\* how many entries the methods have appended to self.mounts
appended == Len(mounts) - (IF arg = <<>> THEN 0
                           ELSE Len(Get(arg[1], "Mounts", <<>>)))

\* l.137-140: the list self.mounts becomes
addVolumeTo(ms, host_path, container_path, read_only, volume_type) ==
    Append(ms, Mount(container_path, host_path, volume_type, read_only, None))

\* enableGUI without its `if not self.__enable_gui`
enableGUI_noGuard(display) ==
    /\ pc = "ready"
    /\ lastCall' = Call("enableGUI", <<>>)
    /\ raised' = "none"
    /\ IF windows
       THEN UNCHANGED fields
       ELSE /\ appended + 1 <= MaxMounts
            /\ enable_gui' = TRUE
            /\ mounts' = addVolumeTo(mounts, "/tmp/.X11-unix", "/tmp/.X11-unix",
                                     FALSE, "bind")
            /\ envs' = Upsert(Upsert(envs, "QT_X11_NO_MITSHM", "1"),
                              "DISPLAY", "unix" \o display)
            /\ UNCHANGED <<share_timezone, common_resources, network_host,
                           ports, devices, share_cwd>>
    /\ UNCHANGED <<pc, windows, arg>>

\* enableGUI without its addVolume call
enableGUI_noMount(display) ==
    /\ pc = "ready"
    /\ lastCall' = Call("enableGUI", <<>>)
    /\ raised' = "none"
    /\ IF windows
       THEN UNCHANGED fields
       ELSE IF ~ enable_gui
       THEN /\ enable_gui' = TRUE
            /\ envs' = Upsert(Upsert(envs, "QT_X11_NO_MITSHM", "1"),
                              "DISPLAY", "unix" \o display)
            /\ UNCHANGED <<share_timezone, common_resources, network_host,
                           ports, mounts, devices, share_cwd>>
       ELSE UNCHANGED fields
    /\ UNCHANGED <<pc, windows, arg>>

\* l.92-103; display is str(os.getenv('DISPLAY'))
enableGUI(display) ==
    /\ pc = "ready"
    /\ lastCall' = Call("enableGUI", <<>>)
    /\ raised' = "none"
    /\ IF windows
       THEN UNCHANGED fields
       ELSE IF ~ enable_gui
       THEN /\ appended + 1 <= MaxMounts
            /\ enable_gui' = TRUE
            /\ mounts' = addVolumeTo(mounts, "/tmp/.X11-unix", "/tmp/.X11-unix",
                                     FALSE, "bind")
            /\ envs' = Upsert(Upsert(envs, "QT_X11_NO_MITSHM", "1"),
                              "DISPLAY", "unix" \o display)
            /\ UNCHANGED <<share_timezone, common_resources, network_host,
                           ports, devices, share_cwd>>
       ELSE UNCHANGED fields
    /\ UNCHANGED <<pc, windows, arg>>

\* enableSharedTimezone with /etc/localtime mounted writable
enableSharedTimezone_writable ==
    /\ pc = "ready"
    /\ lastCall' = Call("enableSharedTimezone", <<>>)
    /\ raised' = "none"
    /\ IF windows
       THEN UNCHANGED fields
       ELSE IF ~ share_timezone
       THEN /\ appended + 2 <= MaxMounts
            /\ share_timezone' = TRUE
            /\ mounts' = addVolumeTo(
                             addVolumeTo(mounts, "/etc/timezone", "/etc/timezone",
                                         TRUE, "bind"),
                             "/etc/localtime", "/etc/localtime", FALSE, "bind")
            /\ UNCHANGED <<enable_gui, common_resources, network_host,
                           ports, devices, envs, share_cwd>>
       ELSE UNCHANGED fields
    /\ UNCHANGED <<pc, windows, arg>>

\* l.105-114
enableSharedTimezone ==
    /\ pc = "ready"
    /\ lastCall' = Call("enableSharedTimezone", <<>>)
    /\ raised' = "none"
    /\ IF windows
       THEN UNCHANGED fields
       ELSE IF ~ share_timezone
       THEN /\ appended + 2 <= MaxMounts
            /\ share_timezone' = TRUE
            /\ mounts' = addVolumeTo(
                             addVolumeTo(mounts, "/etc/timezone", "/etc/timezone",
                                         TRUE, "bind"),
                             "/etc/localtime", "/etc/localtime", TRUE, "bind")
            /\ UNCHANGED <<enable_gui, common_resources, network_host,
                           ports, devices, envs, share_cwd>>
       ELSE UNCHANGED fields
    /\ UNCHANGED <<pc, windows, arg>>

\* enableCommonVolume with the raise after the `if`, not inside it
enableCommonVolume_always ==
    /\ pc = "ready"
    /\ lastCall' = Call("enableCommonVolume", <<>>)
    /\ common_resources' = TRUE
    /\ raised' = "NotImplementedError"
    /\ UNCHANGED <<pc, windows, arg, enable_gui, share_timezone, network_host,
                   ports, mounts, devices, envs, share_cwd>>

\* l.116-120: the raise is inside the `if not self.__common_resources`
enableCommonVolume ==
    /\ pc = "ready"
    /\ lastCall' = Call("enableCommonVolume", <<>>)
    /\ IF ~ common_resources
       THEN /\ common_resources' = TRUE
            /\ raised' = "NotImplementedError"
       ELSE /\ UNCHANGED common_resources
            /\ raised' = "none"
    /\ UNCHANGED <<pc, windows, arg, enable_gui, share_timezone, network_host,
                   ports, mounts, devices, envs, share_cwd>>

\* l.122-126; cwd is os.getcwd()
enableCwdShare(cwd) ==
    /\ pc = "ready"
    /\ appended + 1 <= MaxMounts
    /\ lastCall' = Call("enableCwdShare", <<>>)
    /\ raised' = "none"
    /\ share_cwd' = cwd
    /\ mounts' = addVolumeTo(mounts, cwd, "/workspace", FALSE, "bind")
    /\ UNCHANGED <<pc, windows, arg, enable_gui, share_timezone, common_resources,
                   network_host, ports, devices, envs>>

\* l.128-130
getNetworkMode == IF network_host THEN "host" ELSE "bridge"

\* getWorkingDir testing the truth of self.__share_cwd, not `is not None`
getWorkingDir_truthy == IF share_cwd \notin {None, ""} THEN "/workspace" ELSE "/data"

\* l.132-135
getWorkingDir == IF share_cwd # None THEN "/workspace" ELSE "/data"

\* l.137-140
addVolume(host_path, container_path, read_only, volume_type) ==
    /\ pc = "ready"
    /\ appended + 1 <= MaxMounts
    /\ lastCall' = Call("addVolume", <<host_path, container_path>>)
    /\ raised' = "none"
    /\ mounts' = addVolumeTo(mounts, host_path, container_path, read_only, volume_type)
    /\ UNCHANGED <<pc, windows, arg, enable_gui, share_timezone, common_resources,
                   network_host, ports, devices, envs, share_cwd>>

\* l.142-151; device_dest may be None
addDevice(device_source, device_dest, readonly, mknod) ==
    /\ pc = "ready"
    /\ Len(devices) + 1 <= MaxDevices
    /\ lastCall' = Call("addDevice", <<device_source, device_dest>>)
    /\ raised' = "none"
    /\ devices' = Append(devices,
                         device_source \o ":"
                         \o (IF device_dest = None THEN device_source ELSE device_dest)
                         \o ":" \o "r"
                         \o (IF ~ readonly THEN "w" ELSE "")
                         \o (IF mknod THEN "m" ELSE ""))
    /\ UNCHANGED <<pc, windows, arg, enable_gui, share_timezone, common_resources,
                   network_host, ports, mounts, envs, share_cwd>>

\* l.153-155
addEnv(key, value) ==
    /\ pc = "ready"
    /\ lastCall' = Call("addEnv", <<key, value>>)
    /\ raised' = "none"
    /\ envs' = Upsert(envs, key, value)
    /\ UNCHANGED <<pc, windows, arg, enable_gui, share_timezone, common_resources,
                   network_host, ports, mounts, devices, share_cwd>>

\* l.164: the protocols addPort accepts
supported(protocol) == Lower(protocol) \in {"tcp", "udp", "sctp"}

\* addPort without the protocol validation of l.164-165
addPort_anyProtocol(port_host, port_container, protocol, host_ip) ==
    /\ pc = "ready"
    /\ lastCall' = Call("addPort", <<protocol, ToString(port_container)>>)
    /\ raised' = "none"
    /\ IF network_host
       THEN UNCHANGED ports
       ELSE ports' = Upsert(ports, ToString(port_container) \o "/" \o protocol,
                            <<[HostIp |-> host_ip, HostPort |-> port_host]>>)
    /\ UNCHANGED <<pc, windows, arg, enable_gui, share_timezone, common_resources,
                   network_host, mounts, devices, envs, share_cwd>>

\* addPort validating the protocol before it looks at the network mode
addPort_validateFirst(port_host, port_container, protocol, host_ip) ==
    /\ pc = "ready"
    /\ lastCall' = Call("addPort", <<protocol, ToString(port_container)>>)
    /\ IF ~ supported(protocol)
       THEN /\ raised' = "ProtocolNotSupported"
            /\ UNCHANGED ports
       ELSE IF network_host
       THEN /\ raised' = "none"
            /\ UNCHANGED ports
       ELSE /\ raised' = "none"
            /\ ports' = Upsert(ports, ToString(port_container) \o "/" \o protocol,
                               <<[HostIp |-> host_ip, HostPort |-> port_host]>>)
    /\ UNCHANGED <<pc, windows, arg, enable_gui, share_timezone, common_resources,
                   network_host, mounts, devices, envs, share_cwd>>

\* addPort without the early return of l.159-163
addPort_noHostCheck(port_host, port_container, protocol, host_ip) ==
    /\ pc = "ready"
    /\ lastCall' = Call("addPort", <<protocol, ToString(port_container)>>)
    /\ IF ~ supported(protocol)
       THEN /\ raised' = "ProtocolNotSupported"
            /\ UNCHANGED ports
       ELSE /\ raised' = "none"
            /\ ports' = Upsert(ports, ToString(port_container) \o "/" \o protocol,
                               <<[HostIp |-> host_ip, HostPort |-> port_host]>>)
    /\ UNCHANGED <<pc, windows, arg, enable_gui, share_timezone, common_resources,
                   network_host, mounts, devices, envs, share_cwd>>

\* l.157-166
addPort(port_host, port_container, protocol, host_ip) ==
    /\ pc = "ready"
    /\ lastCall' = Call("addPort", <<protocol, ToString(port_container)>>)
    /\ IF network_host
       THEN /\ raised' = "none"
            /\ UNCHANGED ports
       ELSE IF ~ supported(protocol)
       THEN /\ raised' = "ProtocolNotSupported"
            /\ UNCHANGED ports
       ELSE /\ raised' = "none"
            /\ ports' = Upsert(ports, ToString(port_container) \o "/" \o protocol,
                               <<[HostIp |-> host_ip, HostPort |-> port_host]>>)
    /\ UNCHANGED <<pc, windows, arg, enable_gui, share_timezone, common_resources,
                   network_host, mounts, devices, envs, share_cwd>>

----------------------------------------------------------------------------
(* Inputs. *)

\* all sequences over S of length at most n
RECURSIVE SeqsUpTo(_, _)
SeqsUpTo(S, n) ==
    IF n = 0 THEN {<<>>}
    ELSE LET shorter == SeqsUpTo(S, n - 1)
         IN  shorter \cup {Append(q, x) : q \in shorter, x \in S}

\* inspected mounts, as `docker inspect` lists them under "Mounts"
TimezoneShare ==
    [Type |-> "bind", Source |-> "/etc/timezone", Destination |-> "/etc/timezone",
     RW |-> FALSE, Propagation |-> "rprivate"]
X11Share ==
    [Type |-> "bind", Source |-> "/tmp/.X11-unix", Destination |-> "/tmp/.X11-unix",
     RW |-> TRUE, Propagation |-> "rprivate"]
ResourcesShare ==
    [Type |-> "volume", Name |-> "res", Driver |-> "local",
     Source |-> "/var/lib/docker/volumes/res/_data",
     Destination |-> "/opt/resources", RW |-> TRUE]
WorkspaceShare ==
    [Type |-> "bind", Source |-> "/home/user", Destination |-> "/workspace",
     RW |-> TRUE, Propagation |-> "rprivate"]
\* a volume with neither Type nor Source
WorkspaceVolume == [Name |-> "ws", Destination |-> "/workspace"]
\* targets that contain more than one of the three classified paths
ResourcesWorkspaceShare ==
    [Type |-> "bind", Source |-> "/srv/a", Destination |-> "/opt/resources/workspace"]
TimezoneAllShare ==
    [Type |-> "bind", Source |-> "/srv/b",
     Destination |-> "/opt/resources/workspace/etc/timezone"]
DataShare ==
    [Type |-> "bind", Source |-> "/srv/c", Destination |-> "/data"]

Shares == {TimezoneShare, X11Share, ResourcesShare, WorkspaceShare, WorkspaceVolume,
           ResourcesWorkspaceShare, TimezoneAllShare, DataShare}

\* an inspection record with all of its sections
Inspect(env, shares, networks, portTable) ==
    [Config |-> [Env |-> env, Tty |-> TRUE, OpenStdin |-> TRUE],
     HostConfig |-> [Privileged |-> FALSE, Devices |-> <<>>],
     Mounts |-> shares,
     NetworkSettings |-> [Networks |-> networks, Ports |-> portTable]]

PublishedPorts ==
    [k \in {"80/tcp"} |-> <<[HostIp |-> "0.0.0.0", HostPort |-> 8080]>>]

\* the records the objects of Spec are hydrated from
Containers ==
    {\* a GUI container on a bridge network, its timezone file mounted
     Inspect(<<"DISPLAY=:0">>, <<X11Share, TimezoneShare>>, {"bridge"}, PublishedPorts),
     \* a Wayland container on the host network, a volume on /workspace
     Inspect(<<"WAYLAND_DISPLAY=wayland-0">>, <<WorkspaceVolume>>, {"host"}, EmptyDict),
     \* targets that name several of the classified paths
     Inspect(<<>>, <<ResourcesWorkspaceShare, TimezoneAllShare>>, {"host"}, EmptyDict),
     \* a shared working directory and the resources volume
     Inspect(<<"'TERM=xterm'">>, <<WorkspaceShare, ResourcesShare>>, {"host"}, EmptyDict),
     \* only the section hydration cannot do without
     [HostConfig |-> [Devices |-> <<"/dev/snd:/dev/snd:rwm">>],
      NetworkSettings |-> [Networks |-> {"host"}]],
     \* no NetworkSettings.Networks
     [Config |-> [Env |-> <<"TERM=xterm">>]],
     \* an entry without '='
     Inspect(<<"DISPLAY">>, <<>>, {"host"}, EmptyDict)}

\* what os.getenv('DISPLAY') and os.getcwd() may return
HostDisplays == {":0", None}
Cwds == {"/home/user"}

\* arguments of the builders
Volumes == {<<"/srv/w", "/workspace", FALSE>>}
DeviceArgs == {<<"/dev/snd", None, FALSE, TRUE>>}
EnvArgs == {<<"DISPLAY", ":1">>}
Protocols == {"tcp", "udp", "sctp", "TCP", "http"}
ContainerPorts == {80}

----------------------------------------------------------------------------
(* The object: construction, then any sequence of method calls. *)

\* l.15-27: the defaults every construction starts from
Init ==
    /\ pc = "new"
    /\ windows \in BOOLEAN
    /\ enable_gui = FALSE
    /\ share_timezone = FALSE
    /\ common_resources = FALSE
    /\ network_host = TRUE
    /\ ports = EmptyDict
    /\ mounts = <<>>
    /\ devices = <<>>
    /\ envs = EmptyDict
    /\ share_cwd = None
    /\ arg = <<>>
    /\ lastCall = Call("", <<>>)
    /\ raised = "none"

Methods ==
    \/ \E display \in HostDisplays : enableGUI(display)
    \/ enableSharedTimezone
    \/ enableCommonVolume
    \/ \E cwd \in Cwds : enableCwdShare(cwd)
    \/ \E v \in Volumes : addVolume(v[1], v[2], v[3], "bind")
    \/ \E d \in DeviceArgs : addDevice(d[1], d[2], d[3], d[4])
    \/ \E e \in EnvArgs : addEnv(e[1], e[2])
    \/ \E p \in Protocols, c \in ContainerPorts : addPort(8080, c, p, "0.0.0.0")

Next ==
    \/ defaultConstruct
    \/ \E container \in Containers : parseContainerConfig(container)
    \/ Methods

Spec == Init /\ [][Next]_vars

----------------------------------------------------------------------------
(* Hydration alone, on generated inspection records. *)

\* environment entries: plain, wrapped in quotes, with '=' or a quote in
\* the value, with an empty value, and one without '='
EnvEntries ==
    {"A=1", "'A=1'", "\"B=2\"", "C=x=y", "D=", "E='q'", "'F=\"r\"'",
     "DISPLAY=:0", "XDISPLAY=:1", "G"}

EnvLists == SeqsUpTo(EnvEntries, MaxEnvEntries)

NextEnvs ==
    \E list \in EnvLists :
        parseContainerConfig(Inspect(list, <<>>, {"host"}, EmptyDict))

SpecEnvs == Init /\ [][NextEnvs]_vars

ShareLists == SeqsUpTo(Shares, MaxShares)

NextMounts ==
    \E list \in ShareLists :
        parseContainerConfig(Inspect(<<>>, list, {"host"}, EmptyDict))

SpecMounts == Init /\ [][NextMounts]_vars

----------------------------------------------------------------------------
(* The claims. *)

hydrated == arg # <<>>
hydratedShares == IF hydrated THEN Get(arg[1], "Mounts", <<>>) ELSE <<>>
hydratedEnv == IF hydrated THEN Get(Get(arg[1], "Config", EmptyDict), "Env", <<>>)
               ELSE <<>>

LowercaseProtocols == {"tcp", "udp", "sctp"}

\* C1 as stated: on a bridge-mode config addPort succeeds exactly when the
\* protocol is one of the strings "tcp", "udp", "sctp".
C1_ExactProtocolStrings ==
    (lastCall.op = "addPort" /\ ~ network_host)
        => (raised = "none" <=> lastCall.args[1] \in LowercaseProtocols)

\* C1, amended: on a bridge-mode config addPort succeeds exactly when the
\* protocol, lower-cased, is one of "tcp", "udp", "sctp"; otherwise it
\* signals ProtocolNotSupported and ports is what it was before the call.
C1_ProtocolValidation ==
    [][(lastCall'.op = "addPort" /\ ~ network_host)
           => /\ raised' = "none" <=> Lower(lastCall'.args[1]) \in LowercaseProtocols
              /\ raised' # "none" => (raised' = "ProtocolNotSupported" /\ ports' = ports)
              /\ raised' = "none"
                    => LET key == lastCall'.args[2] \o "/" \o lastCall'.args[1]
                       IN  /\ DOMAIN ports' = DOMAIN ports \cup {key}
                           /\ \A k \in DOMAIN ports : k # key => ports'[k] = ports[k]]_vars

\* an unsupported protocol was refused on a bridge-mode config that has ports
C1_Witness ==
    /\ lastCall.op = "addPort" /\ ~ network_host
    /\ lastCall.args[1] = "http" /\ raised = "ProtocolNotSupported"
    /\ "80/udp" \in DOMAIN ports

hasDisplayAndX11 ==
    /\ "DISPLAY" \in DOMAIN envs
    /\ \E i \in 1..Len(mounts) : mounts[i].Target = "/tmp/.X11-unix"

\* C2 as stated: on every constructed config, default or hydrated, guiEnabled
\* implies the env key DISPLAY and a mount targeting /tmp/.X11-unix.
C2_GuiImpliesDisplayAndMount ==
    (pc = "ready" /\ enable_gui) => hasDisplayAndX11

\* C2, amended: guiEnabled implies the env key DISPLAY and a mount targeting
\* /tmp/.X11-unix on a default-constructed config; on a hydrated config it
\* implies that, or that some env key contains the substring DISPLAY.
C2_GuiInvariant ==
    (pc = "ready" /\ enable_gui)
        => \/ hasDisplayAndX11
           \/ hydrated /\ \E k \in DOMAIN envs : Contains("DISPLAY", k)

\* the GUI was enabled on a default-constructed config and other calls followed
C2_Witness ==
    /\ pc = "ready" /\ ~ hydrated /\ enable_gui
    /\ lastCall.op = "addEnv" /\ envs["DISPLAY"] = ":1"

hasTimezoneMounts ==
    /\ \E i \in 1..Len(mounts) :
          /\ mounts[i].Target = "/etc/timezone"
          /\ mounts[i].Type = "bind" /\ mounts[i].ReadOnly
    /\ \E i \in 1..Len(mounts) :
          /\ mounts[i].Target = "/etc/localtime"
          /\ mounts[i].Type = "bind" /\ mounts[i].ReadOnly

\* C3 as stated: on every constructed config, default or hydrated,
\* shareTimezone implies read-only bind mounts on /etc/timezone and on
\* /etc/localtime.
C3_TimezoneImpliesTwoMounts ==
    (pc = "ready" /\ share_timezone) => hasTimezoneMounts

\* C3, amended: shareTimezone implies the two read-only bind mounts on a
\* default-constructed config; on a hydrated config it implies them, or that
\* some mount's target contains /etc/timezone.
C3_TimezoneInvariant ==
    (pc = "ready" /\ share_timezone)
        => \/ hasTimezoneMounts
           \/ hydrated /\ \E i \in 1..Len(mounts) :
                              Contains("/etc/timezone", mounts[i].Target)

\* the timezone was shared on a default-constructed config and a volume added
C3_Witness ==
    /\ pc = "ready" /\ ~ hydrated /\ share_timezone
    /\ lastCall.op = "addVolume" /\ Len(mounts) = 3

\* C4 as stated: every call of enableCommonVolume signals the
\* unimplemented-feature error and leaves commonResources true.
C4_AlwaysSignals ==
    lastCall.op = "enableCommonVolume"
        => (raised = "NotImplementedError" /\ common_resources)

\* C4, amended: a call of enableCommonVolume signals the unimplemented-feature
\* error exactly when commonResources was false before it, adds no mount,
\* and commonResources is true after every call.
C4_SignalsWhenNotSet ==
    [][lastCall'.op = "enableCommonVolume"
           => /\ raised' = "NotImplementedError" <=> ~ common_resources
              /\ raised' \in {"none", "NotImplementedError"}
              /\ common_resources'
              /\ mounts' = mounts]_vars

\* enableCommonVolume was called on a config hydrated with a resources mount
C4_Witness ==
    /\ lastCall.op = "enableCommonVolume" /\ raised = "none" /\ common_resources
    /\ hydrated /\ \E i \in 1..Len(hydratedShares) :
                       hydratedShares[i].Destination = "/opt/resources"

\* what C5 calls the unwrapped entry: one pair of matching quotes removed
Unwrapped(entry) ==
    IF /\ Len(entry) >= 2
       /\ SubSeq(entry, 1, 1) \in {"'", "\""}
       /\ SubSeq(entry, Len(entry), Len(entry)) = SubSeq(entry, 1, 1)
    THEN SubSeq(entry, 2, Len(entry) - 1)
    ELSE entry

\* the text before the first '='
KeyOf(entry) == Split(Unwrapped(entry), "=")[1]

WellFormed(list) ==
    /\ \A i \in 1..Len(list) : Contains("=", Unwrapped(list[i]))
    /\ \A i, j \in 1..Len(list) : KeyOf(list[i]) = KeyOf(list[j]) => i = j

\* C5: hydrating a list of KEY=VALUE entries with distinct keys (VALUE being
\* everything after the first '=', the entry optionally wrapped in matching
\* quotes) raises nothing, and the key=value pairs of envs are exactly the
\* unwrapped entries.
C5_EnvRoundTrip ==
    (lastCall.op = "__init__" /\ hydrated /\ WellFormed(hydratedEnv))
        => /\ raised = "none"
           /\ {k \o "=" \o envs[k] : k \in DOMAIN envs}
                  = {Unwrapped(hydratedEnv[i]) : i \in 1..Len(hydratedEnv)}

\* C6: on a supported platform a call of enableGUI that directly follows a
\* call of enableGUI changes neither the flag, nor mounts, nor envs.
C6_EnableGuiIdempotent ==
    [][(~ windows /\ lastCall.op = "enableGUI" /\ lastCall'.op = "enableGUI")
           => (enable_gui' = enable_gui /\ mounts' = mounts /\ envs' = envs)]_vars

\* enableGUI was the last call on a supported platform and has enabled the
\* GUI: the state a second call starts from, and must end in
C6_Witness ==
    /\ ~ windows /\ lastCall.op = "enableGUI"
    /\ enable_gui /\ ~ hydrated /\ hasDisplayAndX11
    /\ envs["DISPLAY"] = "unixNone" /\ Len(mounts) = 3

\* C7: with networkHost true, addPort leaves ports unchanged and signals no
\* error, whatever its arguments.
C7_HostNetworkNoPorts ==
    [][(network_host /\ lastCall'.op = "addPort")
           => (ports' = ports /\ raised' = "none")]_vars

\* addPort was called with an unsupported protocol on a host-network config
C7_Witness ==
    /\ pc = "ready" /\ network_host /\ lastCall.op = "addPort"
    /\ lastCall.args[1] = "http" /\ raised = "none"

\* the hydrated mounts by the part of the target C8 and C9 speak of
targets(sub, share) == Contains(sub, Get(share, "Destination", ""))
asTimezone(share) == targets("/etc/timezone", share)
asResources(share) == ~ asTimezone(share) /\ targets("/opt/resources", share)
asWorkspace(share) ==
    ~ asTimezone(share) /\ ~ asResources(share) /\ targets("/workspace", share)

\* C8: the working directory is "/data" after a construction that hydrates no
\* mount whose target contains /workspace, "/workspace" after one that
\* hydrates a mount on /workspace classified neither as timezone nor as
\* resources, "/workspace" after enableCwdShare, and no other method changes it.
C8_WorkingDirectory ==
    [][/\ (lastCall'.op = "__init__" /\ pc' = "ready")
            => /\ (\A i \in 1..Len(hydratedShares') :
                       ~ targets("/workspace", hydratedShares'[i]))
                      => getWorkingDir' = "/data"
               /\ (\E i \in 1..Len(hydratedShares') : asWorkspace(hydratedShares'[i]))
                      => getWorkingDir' = "/workspace"
       /\ lastCall'.op = "enableCwdShare" => getWorkingDir' = "/workspace"
       /\ (pc = "ready" /\ lastCall'.op # "enableCwdShare")
            => getWorkingDir' = getWorkingDir]_vars

\* a volume without Source was hydrated on /workspace and other calls followed
C8_Witness ==
    /\ pc = "ready" /\ hydrated /\ lastCall.op = "addVolume"
    /\ share_cwd = "" /\ getWorkingDir = "/workspace"
    /\ \E i \in 1..Len(hydratedShares) : Get(hydratedShares[i], "Type", "volume") = "volume"

\* C9: after hydration shareTimezone, commonResources and sharedCwd are set
\* exactly by the mounts classified as timezone, as resources (not timezone)
\* and as workspace (neither): a mount sets at most the first that applies.
C9_MountClassification ==
    (lastCall.op = "__init__" /\ pc = "ready" /\ hydrated)
        => /\ share_timezone
                <=> \E i \in 1..Len(hydratedShares) : asTimezone(hydratedShares[i])
           /\ common_resources
                <=> \E i \in 1..Len(hydratedShares) : asResources(hydratedShares[i])
           /\ share_cwd # None
                <=> \E i \in 1..Len(hydratedShares) : asWorkspace(hydratedShares[i])

\* the only hydrated mount targets /etc/timezone, /opt/resources and /workspace
C9_Witness ==
    /\ pc = "ready" /\ hydrated /\ Len(hydratedShares) = 1
    /\ targets("/etc/timezone", hydratedShares[1])
    /\ targets("/opt/resources", hydratedShares[1])
    /\ targets("/workspace", hydratedShares[1])
    /\ share_timezone /\ ~ common_resources /\ share_cwd = None

\* C10: a default-constructed config keeps networkHost true and ports empty
\* under every sequence of method calls.
C10_DefaultStaysHost ==
    ~ hydrated => (network_host /\ DOMAIN ports = {} /\ getNetworkMode = "host")

\* addPort was called with a supported protocol on a default-constructed config
C10_Witness ==
    /\ pc = "ready" /\ ~ hydrated
    /\ lastCall.op = "addPort" /\ lastCall.args[1] = "tcp"
    /\ enable_gui /\ share_cwd # None

====
